---- MODULE Spec2Model ----
(***************************************************************************)
(* KNNEngineSearch (src/src/search/knn_search.ts): a result cache and      *)
(* statistics facade in front of PartitionedVectorDB.findNearest.          *)
(*                                                                         *)
(* One step of the model is one run-to-completion segment of the           *)
(* JavaScript event loop: findNearest up to its return on a cache hit, or  *)
(* up to the await of the backend call; the continuation after the         *)
(* backend promise settles; clearCache; close; getStats.  Arrays are heap  *)
(* objects named by references, so that aliasing between the cache, the    *)
(* backend's array and the caller's array is visible.                      *)
(***************************************************************************)
EXTENDS Integers, Sequences, FiniteSets, Bags, TLC

(***************************************************************************)
(* Bounds of the model.                                                    *)
(***************************************************************************)
\* LRUCache max (1000 at knn_search.ts:87), scaled down so that eviction happens.
Capacity == 2
\* findNearest invocations in one behaviour of Spec.
MaxCalls == 3
\* findNearest calls awaiting the backend at the same time.
MaxInFlight == 2
\* findNearest invocations in one behaviour of KeySpec.
MaxKeyCalls == 2
\* findNearest invocations in one behaviour of LruSpec.
MaxLruCalls == 4
\* findNearest invocations in one behaviour of CopySpec.
MaxCopyCalls == 2
\* Caller-side mutations of returned arrays in one behaviour of CopySpec.
MaxMutations == 1
\* findNearest invocations in one behaviour of RoundSpec.
MaxRoundCalls == 3
\* findNearest invocations in one behaviour of TimeSpec.
MaxTimeCalls == 3
\* The longest time a call takes in TimeSpec, in timer units.
MaxElapsed == 2
\* findNearest invocations in one behaviour of PassSpec.
MaxPassCalls == 2
\* findNearest invocations in one behaviour of FilterSpec.
MaxFilterCalls == 3

(***************************************************************************)
(* Values.                                                                 *)
(***************************************************************************)
\* options.filter absent (undefined).  A present filter is modelled by the
\* text filter.toString() yields.
NoFilter == ""
\* options.probes absent (undefined).
NoProbes == -1
NoRef == -1

Metrics == {"euclidean", "cosine"}

\* Vector components are non-negative multiples of 2^-14, all exactly
\* representable as float32 and as double.
Unit == 2^14

\* The query vectors of Spec: 0.5 and (0.25, 0.75).
Queries == {<<8192>>, <<4096, 12288>>}
\* The requests (query, k, options) callers make in Spec.
Requests == [query : Queries, k : {5, 10}, filter : {NoFilter}, probes : {NoProbes}]

\* The requests of KeySpec: every combination of k, filter and probes.
\* "a>1" and "b<2" are two filters of the same textual length.
KeyQueries == {<<8192>>, <<4096, 12288>>}
KeyFilters == {NoFilter, "a>1", "b<2", "a>=10"}
KeyProbes == {NoProbes, 0, 1, 2}
AllRequests == [query : KeyQueries, k : {5, 10}, filter : KeyFilters, probes : KeyProbes]

\* The requests of RoundSpec.  In units of 2^-14: 1 and 2 both print as
\* 0.0001; 2^24 + 1 (1024 + 2^-14) is no float32 and becomes 2^24 in a
\* Float32Array, which prints as 1024.0000 where the number itself would
\* print as 1024.0001.
RoundQueries == {<<1>>, <<2>>, <<2^24>>, <<2^24 + 1>>}
RoundRequests == [query : RoundQueries, k : {5, 10}, filter : {NoFilter}, probes : {NoProbes}]

\* The requests of TimeSpec.
TimeRequests == [query : {<<8192>>}, k : {5, 10}, filter : {NoFilter}, probes : {NoProbes}]

\* The requests of PassSpec: the per-call options may also name a metric
\* (distanceMetric) and carry another field meant for the backend (other).
NoMetric == ""
NoOther == -1
PassRequests == [query : {<<8192>>, <<2^24 + 1>>}, k : {5, 10}, filter : {NoFilter, "a>1"},
                 probes : {NoProbes, 2}, distanceMetric : {NoMetric, "cosine"},
                 other : {NoOther, 50}]

\* The requests of FilterSpec: one query with every filter.
FilterRequests == [query : {<<8192>>}, k : {5}, filter : KeyFilters, probes : {NoProbes, 2}]

NoRequest == [query |-> <<>>, k |-> 0, filter |-> NoFilter, probes |-> NoProbes]

\* What the backend may answer: a sequence of Result Records (opaque, named
\* by numbers), or a failure.
Results == {<<>>, <<1, 2>>}
Errors == {"timeout", "invalid filter"}

(***************************************************************************)
(* Construction (knn_search.ts:53-103).                                    *)
(***************************************************************************)
\* The KNNOptionsPartitioned a caller may pass: each field present or undefined.
UndefinedOption == "undefined"
KNNOptions == [metric : Metrics \cup {UndefinedOption},
               cacheResults : {"true", "false", UndefinedOption}]

\* { ...defaults, ...(entries of options that are not undefined) }
MergeOptions(o) ==
  [metric |-> IF o.metric # UndefinedOption THEN o.metric ELSE "euclidean",
   cacheResults |-> IF o.cacheResults # UndefinedOption
                       THEN o.cacheResults = "true" ELSE TRUE]

InitialStats ==
  [calls |-> 0, totalTime |-> 0, lastSearchTime |-> 0, cacheHits |-> 0, cacheMisses |-> 0]

(***************************************************************************)
(* Cache key (knn_search.ts:172-185).                                      *)
(***************************************************************************)
\* new Float32Array(query): round to a 24 bit significand, ties to even.  v
\* counts units of 2^-14 and is below 2^25; every v below 2^24 already has
\* a 24 bit significand.
ToFloat32(v) ==
  IF v < 2^24 \/ v % 2 = 0 THEN v
  ELSE IF (v + 1) % 4 = 0 THEN v + 1 ELSE v - 1

TypedQuery(query) == [i \in DOMAIN query |-> ToFloat32(query[i])]

Pad4(n) ==
  IF n < 10 THEN "000" \o ToString(n)
  ELSE IF n < 100 THEN "00" \o ToString(n)
  ELSE IF n < 1000 THEN "0" \o ToString(n)
  ELSE ToString(n)

\* Number.prototype.toFixed(4): the integer n with n / 10^4 closest to the
\* value, the larger n on a tie; printed with four decimals.
\* The whole and the fractional part are rounded apart, so that the
\* arithmetic stays exact for every v below 2^25.
Rounded4(v) == (v \div Unit) * 10000 + ((v % Unit) * 20000 + Unit) \div (2 * Unit)

\* Faulty variant: the component is printed with all its digits.
ToFixedAll(v) == ToString(v)

ToFixed4(v) ==
  LET n == Rounded4(v)
  IN  ToString(n \div 10000) \o "." \o Pad4(n % 10000)

RECURSIVE JoinComma(_)
JoinComma(s) ==
  IF Len(s) = 0 THEN ""
  ELSE IF Len(s) = 1 THEN s[1]
  ELSE s[1] \o "," \o JoinComma(Tail(s))

QueryHash(typedQuery) == JoinComma([i \in DOMAIN typedQuery |-> ToFixed4(typedQuery[i])])

\* Faulty variant: the fingerprint is the filter's whole text.
FilterInfoText(filter) ==
  IF filter # NoFilter THEN "filterHash:" \o filter ELSE "noFilter"

\* options.filter ? `filterHash:${options.filter.toString().length}` : "noFilter"
FilterInfo(filter) ==
  IF filter # NoFilter THEN "filterHash:" \o ToString(Len(filter)) ELSE "noFilter"

\* options.probes ? `probes${options.probes}` : ""   (0 is falsy)
ProbesInfo(probes) ==
  IF probes # NoProbes /\ probes # 0 THEN "probes" \o ToString(probes) ELSE ""

GetCacheKey(typedQuery, k, opts, metric) ==
  QueryHash(typedQuery) \o "_k" \o ToString(k) \o "_" \o metric \o "_"
    \o FilterInfo(opts.filter) \o "_" \o ProbesInfo(opts.probes)

(***************************************************************************)
(* LRUCache<string, SearchResult[]> (lru-cache), as knn_search.ts uses it. *)
(* A cache is a sequence of entries, least recently used first.            *)
(***************************************************************************)
CacheKeys(c) == {c[i].key : i \in DOMAIN c}

CacheHas(c, key) == key \in CacheKeys(c)

CacheIndex(c, key) == CHOOSE i \in DOMAIN c : c[i].key = key

CacheRemove(c, key) == SelectSeq(c, LAMBDA e : e.key # key)

\* resultCache.get(key): the entry found ...
CachePeek(c, key) == c[CacheIndex(c, key)]

\* Faulty variant: a lookup that takes the entry out of the cache.
CacheTouchDrop(c, key) == CacheRemove(c, key)

\* Faulty variant: a lookup that does not refresh the entry (first in, first out).
CacheTouchNone(c, key) == c

\* ... which becomes the most recently used one.
CacheTouch(c, key) == Append(CacheRemove(c, key), CachePeek(c, key))

\* Faulty variant: an entry of the same key is kept as it is.
CacheSetKeepOld(c, entry) ==
  IF CacheHas(c, entry.key) THEN c
  ELSE IF Len(c) >= Capacity THEN Append(Tail(c), entry)
  ELSE Append(c, entry)

\* Faulty variant: nothing is ever evicted.
CacheSetNoEvict(c, entry) ==
  IF CacheHas(c, entry.key) THEN Append(CacheRemove(c, entry.key), entry)
  ELSE Append(c, entry)

\* resultCache.set(key, value): replace and refresh an entry of the same key;
\* otherwise evict the least recently used entry of a full cache first.
CacheSet(c, entry) ==
  IF CacheHas(c, entry.key) THEN Append(CacheRemove(c, entry.key), entry)
  ELSE IF Len(c) >= Capacity THEN Append(Tail(c), entry)
  ELSE Append(c, entry)

\* Faulty variant: a clear that leaves the entries.
CacheClearNothing(c) == c

\* resultCache.clear()
CacheClear(c) == <<>>

(***************************************************************************)
(* State.                                                                  *)
(***************************************************************************)
VARIABLES
  options,      \* this.options: [metric, cacheResults], fixed at construction
  resultCache,  \* this.resultCache: entries [key, ref, orig, by], LRU first
  stats,        \* this.stats
  heap,         \* the arrays alive: reference -> contents
  pending,      \* bag of the requests whose backend call has not settled
  dbCalls,      \* how often a method of this.db has been invoked
  last,         \* the last operation and what it gave its caller
  invoked,      \* history: findNearest invocations
  mutations,    \* history: caller-side mutations of returned arrays
  expect,       \* history: [req, items, clean] a successful miss left behind
  failed,       \* history: [req, clean] a failed call left behind
  cleared,      \* history: [key, clean] the last clearCache emptied
  recency,      \* history: the cached keys, oldest store-or-hit first
  insertion,    \* history: the cached keys, oldest insertion first
  timed,        \* history: calls whose elapsed time was added to totalTime
  failures      \* history: calls that failed

vars == <<options, resultCache, stats, heap, pending, dbCalls, last,
          invoked, mutations, expect, failed, cleared, recency, insertion,
          timed, failures>>

NoSnapshot ==
  [calls |-> 0, totalTime |-> 0, avgTime |-> <<0, 1>>, lastSearchTime |-> 0,
   cacheHits |-> 0, cacheMisses |-> 0, cachedResultsCount |-> 0,
   options |-> MergeOptions([metric |-> UndefinedOption, cacheResults |-> UndefinedOption])]

\* The arguments of db.findNearest; no call made.
NoArgs ==
  [query |-> <<>>, k |-> 0,
   options |-> [filter |-> NoFilter, distanceMetric |-> NoMetric, probes |-> NoProbes]]

\* What an operation gave its caller, and what the history said when it began.
NoEvent ==
  [op |-> "new", req |-> NoRequest,
   ref |-> NoRef, items |-> <<>>, error |-> "",
   dbRef |-> NoRef, dbItems |-> <<>>, dbError |-> "",
   stored |-> <<>>, by |-> NoRequest,
   evicted |-> {}, oldest |-> "", firstIn |-> "", wasFull |-> FALSE, wasNew |-> FALSE,
   expAll |-> {}, expClean |-> {}, afterFail |-> "no", afterClear |-> "no",
   snap |-> NoSnapshot, dbArgs |-> NoArgs]

CacheKeyOf(req) == GetCacheKey(TypedQuery(req.query), req.k, req, options.metric)

CacheRefs(c) == {c[i].ref : i \in DOMAIN c}

\* A reference no live array has: the smallest one.
FreshRef(h) == CHOOSE r \in 0..Cardinality(DOMAIN h) :
                 r \notin DOMAIN h /\ \A q \in 0..Cardinality(DOMAIN h) : q \notin DOMAIN h => r <= q

\* Arrays nobody can reach any more are collected.
Collect(h, live) == [r \in (DOMAIN h) \cap live |-> h[r]]

\* [...array]: a new array with the same elements.
CopyOf(h, ref) == h[ref]

\* new KNNEngineSearch(db, o), for the options o of a set.
Constructed(optionSet) ==
  /\ \E o \in optionSet : options = MergeOptions(o)
  /\ resultCache = <<>>
  /\ stats = InitialStats
  /\ heap = [r \in {} |-> <<>>]
  /\ pending = EmptyBag
  /\ dbCalls = 0
  /\ last = NoEvent
  /\ invoked = 0
  /\ mutations = 0
  /\ expect = {}
  /\ failed = {}
  /\ cleared = {}
  /\ recency = <<>>
  /\ insertion = <<>>
  /\ timed = 0
  /\ failures = 0

(***************************************************************************)
(* History bookkeeping (no effect on the program's state).                 *)
(***************************************************************************)
Without(set, req) == {x \in set : x.req # req}

\* A result was stored under key: what earlier calls left behind under that
\* key is no longer what the cache holds.
Overwritten(set, key) ==
  {IF CacheKeyOf(x.req) = key THEN [x EXCEPT !.clean = FALSE] ELSE x : x \in set}

\* The results successful misses of req left behind: all of them, and those
\* no later store under the same key has replaced.
ExpectedOf(req) == {x.items : x \in {y \in expect : y.req = req}}

ExpectedCleanOf(req) == {x.items : x \in {y \in expect : y.req = req /\ y.clean}}

AfterFailOf(req) ==
  IF \E x \in failed : x.req = req
    THEN IF (CHOOSE y \in failed : y.req = req).clean THEN "clean" ELSE "stored"
    ELSE "no"

AfterClearOf(key) ==
  IF \E x \in cleared : x.key = key
    THEN IF (CHOOSE y \in cleared : y.key = key).clean THEN "clean" ELSE "stored"
    ELSE "no"

\* The event of a findNearest call that begins now.
Begun(op, req) ==
  [NoEvent EXCEPT !.op = op, !.req = req,
                  !.expAll = ExpectedOf(req),
                  !.expClean = ExpectedCleanOf(req),
                  !.afterFail = AfterFailOf(req),
                  !.afterClear = AfterClearOf(CacheKeyOf(req))]

Used(keys, key) == Append(SelectSeq(keys, LAMBDA x : x # key), key)

(***************************************************************************)
(* findNearest (knn_search.ts:109-166).                                    *)
(***************************************************************************)
\* Faulty variant: the call is not counted when it begins.
CountCallNot(st) == st

\* this.stats.calls++ (line 116)
CountCall(st) == [st EXCEPT !.calls = @ + 1]

\* this.stats.cacheHits++ (line 126)
CountHit(st) == [st EXCEPT !.cacheHits = @ + 1]

\* Faulty variant: the miss is not counted.
CountMissForgotten(st) == st

\* this.stats.cacheMisses++ (line 133)
CountMiss(st) == [st EXCEPT !.cacheMisses = @ + 1]

\* Faulty variant: the flag is ignored.
CachingAlways == TRUE

\* if (this.options.cacheResults) (lines 122 and 155)
CachingEnabled == options.cacheResults

\* return [...cachedResults] (line 131): the caller gets the copy.
HitValue(cachedRef, copyRef) == copyRef

\* Faulty variant: the backend's array itself is cached.
CachedValueAlias(resultsRef, copyRef) == resultsRef

\* this.resultCache.set(cacheKey, [...results]) (line 157): the cache gets the copy.
CachedValue(resultsRef, copyRef) == copyRef

\* Faulty variant: the total is replaced by the time of the last call.
RecordTimeOnly(st, e) == [st EXCEPT !.lastSearchTime = e, !.totalTime = e]

\* Faulty variant: a hit falls through to the backend call.
DbInvocationsAlways(n, hit) == n + 1

\* db.findNearest is reached (line 141) unless the call returned at line 131.
DbInvocations(n, hit) == IF hit THEN n ELSE n + 1

RecordTime(st, e) == [st EXCEPT !.lastSearchTime = e, !.totalTime = @ + e]

\* Lines 114-132: the cache holds the key; the call returns a copy at once.
CacheHit(req, maxCalls, times) ==
  LET key == CacheKeyOf(req)
      entry == CachePeek(resultCache, key)
      copy == FreshRef(heap)
      cache2 == CacheTouch(resultCache, key)
  IN  /\ stats.calls < maxCalls
      /\ CachingEnabled
      /\ CacheHas(resultCache, key)
      /\ \E e \in times : stats' = RecordTime(CountHit(CountCall(stats)), e)
      /\ resultCache' = cache2
      /\ heap' = Collect((copy :> CopyOf(heap, entry.ref)) @@ heap,
                         CacheRefs(cache2) \cup {HitValue(entry.ref, copy)})
      /\ last' = [Begun("hit", req) EXCEPT !.ref = HitValue(entry.ref, copy),
                                            !.items = CopyOf(heap, entry.ref),
                                            !.stored = entry.orig,
                                            !.by = entry.by]
      /\ invoked' = invoked + 1
      /\ expect' = Without(expect, req)
      /\ failed' = Without(failed, req)
      /\ cleared' = {}
      /\ recency' = Used(recency, key)
      /\ dbCalls' = DbInvocations(dbCalls, TRUE)
      /\ timed' = timed + 1
      /\ UNCHANGED <<options, pending, mutations, insertion, failures>>

\* Faulty variant: a call joins the backend call of an identical request
\* that is under way.
AwaitedCoalesced(pend, req) == IF BagIn(req, pend) THEN pend ELSE pend (+) SetToBag({req})

\* await this.db.findNearest(...) (line 141): every call that misses awaits
\* a backend call of its own.
Awaited(pend, req) == pend (+) SetToBag({req})

\* this.db.findNearest(typedQuery, k, {filter, distanceMetric, probes})
\* (lines 141-146)
BackendArgs(req) ==
  [query |-> TypedQuery(req.query), k |-> req.k,
   options |-> [filter |-> req.filter, distanceMetric |-> options.metric,
                probes |-> req.probes]]

\* Lines 114-146 without a hit: caching is off or the key is absent; the
\* backend is invoked and the call awaits it.
CacheMiss(req, maxCalls) ==
  LET key == CacheKeyOf(req)
  IN  /\ stats.calls < maxCalls
      /\ BagCardinality(pending) < MaxInFlight
      /\ ~(CachingEnabled /\ CacheHas(resultCache, key))
      /\ stats' = IF CachingEnabled THEN CountMiss(CountCall(stats)) ELSE CountCall(stats)
      /\ dbCalls' = DbInvocations(dbCalls, FALSE)
      /\ pending' = Awaited(pending, req)
      /\ heap' = Collect(heap, CacheRefs(resultCache))
      /\ last' = [Begun("miss", req) EXCEPT !.dbArgs = BackendArgs(req)]
      /\ invoked' = invoked + 1
      /\ expect' = Without(expect, req)
      /\ failed' = Without(failed, req)
      /\ cleared' = {}
      /\ UNCHANGED <<options, resultCache, mutations, recency, insertion, timed, failures>>

\* Lines 154-165: the backend answered with the array `results`; a copy is
\* cached and `results` itself is returned.
BackendResolved(req, results, times) ==
  LET key == CacheKeyOf(req)
      dbRef == FreshRef(heap)
      heap1 == (dbRef :> results) @@ heap
      copy == FreshRef(heap1)
      heap2 == (copy :> CopyOf(heap1, dbRef)) @@ heap1
      entry == [key |-> key, ref |-> CachedValue(dbRef, copy),
                orig |-> CopyOf(heap1, dbRef), by |-> req]
      cache2 == IF CachingEnabled THEN CacheSet(resultCache, entry) ELSE resultCache
      gone == CacheKeys(resultCache) \ CacheKeys(cache2)
  IN  /\ BagIn(req, pending)
      /\ pending' = pending (-) SetToBag({req})
      /\ resultCache' = cache2
      /\ heap' = Collect(heap2, CacheRefs(cache2) \cup {dbRef})
      /\ \E e \in times : stats' = RecordTime(stats, e)
      /\ last' = [NoEvent EXCEPT !.op = "resolved", !.req = req,
                                 !.ref = dbRef, !.items = heap2[dbRef],
                                 !.dbRef = dbRef, !.dbItems = results,
                                 !.evicted = gone,
                                 !.oldest = IF recency = <<>> THEN "" ELSE Head(recency),
                                 !.firstIn = IF insertion = <<>> THEN "" ELSE Head(insertion),
                                 !.wasFull = (Len(resultCache) >= Capacity),
                                 !.wasNew = ~CacheHas(resultCache, key)]
      /\ IF CachingEnabled
           THEN /\ expect' = {x \in Overwritten(expect, key) :
                                CacheKeyOf(x.req) \notin gone}
                             \cup {[req |-> req, items |-> results, clean |-> TRUE]}
                /\ failed' = Overwritten(failed, key)
                /\ cleared' = {IF x.key = key THEN [x EXCEPT !.clean = FALSE] ELSE x :
                                 x \in cleared}
                /\ recency' = SelectSeq(Used(recency, key), LAMBDA x : x \in CacheKeys(cache2))
                /\ insertion' = SelectSeq(IF CacheHas(resultCache, key) THEN insertion
                                                                        ELSE Append(insertion, key),
                                          LAMBDA x : x \in CacheKeys(cache2))
           ELSE UNCHANGED <<expect, failed, cleared, recency, insertion>>
      /\ timed' = timed + 1
      /\ UNCHANGED <<options, dbCalls, invoked, mutations, failures>>

\* Faulty variant: the failure is swallowed and an empty result is cached and
\* returned.
BackendFallback(req, error) ==
  LET key == CacheKeyOf(req)
      empty == FreshRef(heap)
      heap1 == (empty :> <<>>) @@ heap
      entry == [key |-> key, ref |-> empty, orig |-> <<>>, by |-> req]
      cache2 == IF CachingEnabled THEN CacheSet(resultCache, entry) ELSE resultCache
  IN  /\ BagIn(req, pending)
      /\ pending' = pending (-) SetToBag({req})
      /\ resultCache' = cache2
      /\ heap' = Collect(heap1, CacheRefs(cache2) \cup {empty})
      /\ last' = [NoEvent EXCEPT !.op = "resolved", !.req = req, !.ref = empty,
                                 !.dbError = error]
      /\ recency' = SelectSeq(Used(recency, key), LAMBDA x : x \in CacheKeys(cache2))
      /\ insertion' = SelectSeq(Used(insertion, key), LAMBDA x : x \in CacheKeys(cache2))
      /\ UNCHANGED <<options, stats, dbCalls, invoked, mutations, expect, failed, cleared,
                     timed, failures>>

\* Faulty variant: the failed call's time is recorded like any other.
FailureStatsTimed(st) == RecordTime(st, 1)

\* The catch block (lines 147-152) stops the timer and updates no statistic.
FailureStats(st) == st

\* Lines 147-152: the backend failed with `error`, which is thrown on.
BackendRejected(req, error) ==
  /\ BagIn(req, pending)
  /\ pending' = pending (-) SetToBag({req})
  /\ heap' = Collect(heap, CacheRefs(resultCache))
  /\ last' = [NoEvent EXCEPT !.op = "rejected", !.req = req,
                             !.error = error, !.dbError = error]
  /\ failed' = Without(failed, req)
                 \cup {[req |-> req, clean |-> ~CacheHas(resultCache, CacheKeyOf(req))]}
  /\ stats' = FailureStats(stats)
  /\ failures' = failures + 1
  /\ UNCHANGED <<options, resultCache, dbCalls, invoked, mutations,
                 expect, cleared, recency, insertion, timed>>

(***************************************************************************)
(* getStats, clearCache, close (knn_search.ts:190-223).                    *)
(***************************************************************************)
StatsSnapshot ==
  [calls |-> stats.calls,
   totalTime |-> stats.totalTime,
   avgTime |-> IF stats.calls > 0 THEN <<stats.totalTime, stats.calls>> ELSE <<0, 1>>,
   lastSearchTime |-> stats.lastSearchTime,
   cacheHits |-> stats.cacheHits,
   cacheMisses |-> stats.cacheMisses,
   cachedResultsCount |-> Len(resultCache),
   options |-> options]

GetStats ==
  /\ last.op # "getStats"
  /\ last' = [NoEvent EXCEPT !.op = "getStats", !.snap = StatsSnapshot]
  /\ heap' = Collect(heap, CacheRefs(resultCache))
  /\ UNCHANGED <<options, resultCache, stats, pending, dbCalls, invoked, mutations,
                 expect, failed, cleared, recency, insertion, timed, failures>>

\* Faulty variant: clearing abandons the calls that await the backend.
StillAwaitedNone(pend) == EmptyBag

\* clearCache (lines 207-213) touches nothing but the cache: the calls that
\* await the backend go on.
StillAwaited(pend) == pend

Cleared(op) ==
  /\ resultCache' = CacheClear(resultCache)
  /\ pending' = StillAwaited(pending)
  /\ heap' = Collect(heap, {})
  /\ last' = [NoEvent EXCEPT !.op = op]
  /\ expect' = {}
  /\ cleared' = {[key |-> k, clean |-> TRUE] : k \in CacheKeys(resultCache)}
  /\ recency' = <<>>
  /\ insertion' = <<>>
  /\ UNCHANGED <<options, stats, dbCalls, invoked, mutations, failed,
                 timed, failures>>

ClearCache == last.op \notin {"clearCache", "close"} /\ Cleared("clearCache")

\* Faulty variant: close() closes the backend as well.
CloseBackendToo ==
  /\ last.op \notin {"clearCache", "close"}
  /\ resultCache' = CacheClear(resultCache)
  /\ heap' = Collect(heap, {})
  /\ last' = [NoEvent EXCEPT !.op = "close"]
  /\ expect' = {}
  /\ cleared' = {[key |-> k, clean |-> TRUE] : k \in CacheKeys(resultCache)}
  /\ recency' = <<>>
  /\ insertion' = <<>>
  /\ dbCalls' = dbCalls + 1
  /\ UNCHANGED <<options, stats, pending, invoked, mutations, failed, timed, failures>>

\* close() is clearCache() and nothing else.
Close == last.op \notin {"clearCache", "close"} /\ Cleared("close")

(***************************************************************************)
(* The caller owns the array it was given and may change it.               *)
(***************************************************************************)
Reversed(s) == [i \in DOMAIN s |-> s[Len(s) + 1 - i]]

Mutated(s) ==
  {Append(s, 9)} \cup (IF Len(s) > 0 THEN {Tail(s)} ELSE {})
                 \cup (IF Len(s) > 1 THEN {Reversed(s)} ELSE {})

MutateReturned ==
  /\ last.op \in {"hit", "resolved"}
  /\ mutations < MaxMutations
  /\ last.ref \in DOMAIN heap
  /\ \E m \in Mutated(heap[last.ref]) : heap' = [heap EXCEPT ![last.ref] = m]
  /\ mutations' = mutations + 1
  /\ UNCHANGED <<options, resultCache, stats, pending, dbCalls, last, invoked,
                 expect, failed, cleared, recency, insertion, timed, failures>>

(***************************************************************************)
(* Specifications.                                                         *)
(***************************************************************************)
\* What timer.getElapsed reports in the specifications below: one unit.
UnitTime == {1}

\* Spec: concurrent calls of a few requests on an orchestrator built with
\* the default metric.
Init == Constructed({o \in KNNOptions : o.metric = UndefinedOption})

Next ==
  \/ \E req \in Requests : CacheHit(req, MaxCalls, UnitTime)
  \/ \E req \in Requests : CacheMiss(req, MaxCalls)
  \/ \E req \in Requests, results \in Results : BackendResolved(req, results, UnitTime)
  \/ \E req \in Requests, error \in Errors : BackendRejected(req, error)
  \/ GetStats
  \/ ClearCache
  \/ Close

Spec == Init /\ [][Next]_vars

\* KeySpec: at most MaxKeyCalls calls, one after the other, of any two
\* requests, on an orchestrator built with any options.
KeyInit == Constructed(KNNOptions)

KeyNext ==
  \/ \E req \in AllRequests : CacheHit(req, MaxKeyCalls, UnitTime)
  \/ \E req \in AllRequests : pending = EmptyBag /\ CacheMiss(req, MaxKeyCalls)
  \/ \E req \in AllRequests : BackendResolved(req, <<1, 2>>, UnitTime)
  \/ \E req \in AllRequests : BackendRejected(req, "timeout")

KeySpec == KeyInit /\ [][KeyNext]_vars

\* LruSpec: calls made one after the other, enough of them to fill the
\* cache, use an entry again and evict.
LruNext ==
  \/ \E req \in Requests : CacheHit(req, MaxLruCalls, UnitTime)
  \/ \E req \in Requests : pending = EmptyBag /\ CacheMiss(req, MaxLruCalls)
  \/ \E req \in Requests : BackendResolved(req, <<1, 2>>, UnitTime)
  \/ \E req \in Requests : BackendRejected(req, "timeout")

LruSpec == Init /\ [][LruNext]_vars

\* CopySpec: as Spec, with fewer calls and a caller that changes the arrays
\* it was given.
CopyNext ==
  \/ \E req \in Requests : CacheHit(req, MaxCopyCalls, UnitTime)
  \/ \E req \in Requests : CacheMiss(req, MaxCopyCalls)
  \/ \E req \in Requests, results \in Results : BackendResolved(req, results, UnitTime)
  \/ \E req \in Requests, error \in Errors : BackendRejected(req, error)
  \/ ClearCache
  \/ MutateReturned

CopySpec == Init /\ [][CopyNext]_vars

\* RoundSpec: concurrent calls of requests whose queries differ and yet
\* print alike, on an orchestrator with caching enabled or disabled.
RoundNext ==
  \/ \E req \in RoundRequests : CacheHit(req, MaxRoundCalls, UnitTime)
  \/ \E req \in RoundRequests : CacheMiss(req, MaxRoundCalls)
  \/ \E req \in RoundRequests : BackendResolved(req, <<1, 2>>, UnitTime)
  \/ \E req \in RoundRequests : BackendRejected(req, "timeout")

RoundSpec == Init /\ [][RoundNext]_vars

\* What timer.getElapsed reports in TimeSpec: any time from 0 to MaxElapsed.
ElapsedTimes == 0..MaxElapsed

\* TimeSpec: concurrent calls that take different times, on an orchestrator
\* with caching enabled or disabled.
TimeNext ==
  \/ \E req \in TimeRequests : CacheHit(req, MaxTimeCalls, ElapsedTimes)
  \/ \E req \in TimeRequests : CacheMiss(req, MaxTimeCalls)
  \/ \E req \in TimeRequests : BackendResolved(req, <<1, 2>>, ElapsedTimes)
  \/ \E req \in TimeRequests : BackendRejected(req, "timeout")
  \/ GetStats
  \/ ClearCache
  \/ Close

TimeSpec == Init /\ [][TimeNext]_vars

\* PassSpec: calls made one after the other, with per-call options of
\* every kind, on an orchestrator built with any options.
PassNext ==
  \/ \E req \in PassRequests : CacheHit(req, MaxPassCalls, UnitTime)
  \/ \E req \in PassRequests : pending = EmptyBag /\ CacheMiss(req, MaxPassCalls)
  \/ \E req \in PassRequests : BackendResolved(req, <<1, 2>>, UnitTime)
  \/ \E req \in PassRequests : BackendRejected(req, "timeout")

PassSpec == KeyInit /\ [][PassNext]_vars

\* FilterSpec: concurrent calls that differ in their filters, on an
\* orchestrator with caching enabled or disabled.
FilterNext ==
  \/ \E req \in FilterRequests : CacheHit(req, MaxFilterCalls, UnitTime)
  \/ \E req \in FilterRequests : CacheMiss(req, MaxFilterCalls)
  \/ \E req \in FilterRequests : BackendResolved(req, <<1, 2>>, UnitTime)
  \/ \E req \in FilterRequests : BackendRejected(req, "invalid filter")

FilterSpec == Init /\ [][FilterNext]_vars

(***************************************************************************)
(* Properties.                                                             *)
(***************************************************************************)
\* C1, as stated: after a successful miss of a request left result R behind
\* (no clearCache, close or eviction of its key since), the next identical
\* call is a hit and returns a sequence equal to R.
C1_AsStated ==
  last.expAll # {} => (last.op = "hit" /\ \A r \in last.expAll : last.items = r)

\* C1, amended: that next identical call is a hit; it returns a sequence
\* equal to R unless another call stored a result under the same cache key
\* in between; on a fresh orchestrator the two calls leave cacheHits = 1 and
\* cacheMisses = 1.
C1_MissThenHit ==
  /\ last.expAll # {} => last.op = "hit"
  /\ \A r \in last.expClean : last.items = r
  /\ (last.expAll # {} /\ invoked = 2) =>
        (stats.cacheHits = 1 /\ stats.cacheMisses = 1)

C1_Witness ==
  /\ last.op = "hit" /\ last.expClean = {<<1, 2>>} /\ invoked = 2
  /\ last.items = <<1, 2>> /\ stats.cacheHits = 1

\* C2: with caching enabled, cacheHits + cacheMisses = calls in every state.
C2_HitsPlusMisses ==
  options.cacheResults => stats.cacheHits + stats.cacheMisses = stats.calls

C2_Witness ==
  /\ options.cacheResults /\ stats.cacheHits >= 1 /\ stats.cacheMisses >= 2
  /\ pending # EmptyBag

\* C3: the backend has been invoked calls - cacheHits times: never for a
\* hit, once for every other call, failed ones included.
C3_BackendInvocations == dbCalls = stats.calls - stats.cacheHits

C3_Witness ==
  /\ stats.cacheHits >= 1 /\ last.op = "rejected" /\ dbCalls = 2 /\ stats.calls = 3

\* C4, as stated: a failed backend call makes findNearest fail with the same
\* error, and a later identical call is again a miss.
C4_AsStated ==
  /\ last.dbError # "" =>
        (last.op = "rejected" /\ last.error = last.dbError /\ last.ref = NoRef)
  /\ last.afterFail # "no" => last.op = "miss"

\* C4, amended: a failed backend call makes findNearest fail with the same
\* error and return no sequence; the step leaves the Result Cache as it was;
\* and the next identical call is again a miss, provided the key was not
\* cached when the call failed and no call has stored a result under it
\* since.
C4_FailureStoresNothing ==
  /\ [](last.dbError # "" =>
          (last.op = "rejected" /\ last.error = last.dbError /\ last.ref = NoRef))
  /\ [](last.afterFail = "clean" => last.op = "miss")
  /\ [][last'.dbError # "" => resultCache' = resultCache]_vars

C4_Witness ==
  /\ last.op = "miss" /\ last.afterFail = "clean" /\ options.cacheResults
  /\ dbCalls = 2

\* C5: the Result Cache never holds more than Capacity entries, and a store
\* into a full cache still completes the call.
C5_CacheBound ==
  /\ Len(resultCache) <= Capacity
  /\ StatsSnapshot.cachedResultsCount <= Capacity
  /\ (last.op = "resolved" /\ last.wasFull /\ last.wasNew) =>
        (last.error = "" /\ last.ref # NoRef)

C5_Witness ==
  /\ last.op = "resolved" /\ last.wasFull /\ last.wasNew
  /\ Len(resultCache) = Capacity /\ last.evicted # {}

Range(f) == {f[i] : i \in DOMAIN f}

\* C6: a successful miss that stores a new key into a full cache evicts
\* exactly the key whose last store or hit is the oldest; any other store
\* evicts nothing; a call hits exactly the keys that remain.
C6_LruEviction ==
  /\ (last.op = "resolved" /\ options.cacheResults) =>
        /\ (last.wasNew /\ last.wasFull) => last.evicted = {last.oldest}
        /\ ~(last.wasNew /\ last.wasFull) => last.evicted = {}
        /\ CacheKeys(resultCache) = Range(recency)
  /\ last.op = "hit" => recency[Len(recency)] = CacheKeyOf(last.req)
  /\ (last.op = "miss" /\ options.cacheResults) => CacheKeyOf(last.req) \notin Range(recency)

\* The evicted key is not the one inserted first: a hit had refreshed that one.
C6_Witness ==
  /\ last.op = "resolved" /\ last.evicted # {}
  /\ last.evicted # {last.firstIn}

\* C7: the array a call returns (the backend's own array on the miss path)
\* is never the array the cache holds, and the cached contents stay what was
\* stored whatever the caller does to the arrays it was given.
C7_CopyIsolation ==
  /\ last.op \in {"hit", "resolved"} =>
        (last.ref \notin CacheRefs(resultCache) /\ last.dbRef \notin CacheRefs(resultCache))
  /\ \A i \in DOMAIN resultCache : heap[resultCache[i].ref] = resultCache[i].orig
  /\ last.op = "hit" => last.items = last.stored

C7_Witness ==
  /\ mutations >= 1 /\ last.op = "hit" /\ last.items = <<1, 2>>
  /\ last.items = last.stored

\* C8, as stated: after clearCache the cache is empty and the subsequent
\* call identical to a previously cached request is a miss.
C8_AsStated ==
  /\ last.op = "clearCache" => StatsSnapshot.cachedResultsCount = 0
  /\ last.afterClear # "no" => last.op = "miss"

\* C8, amended: after clearCache the cache is empty, and the subsequent call
\* identical to a previously cached request is a miss unless a call that was
\* in flight has stored a result under the same key since the clear.
C8_ClearCache ==
  /\ last.op = "clearCache" => (StatsSnapshot.cachedResultsCount = 0 /\ resultCache = <<>>)
  /\ last.afterClear = "clean" => last.op = "miss"

C8_Witness ==
  /\ last.op = "miss" /\ last.afterClear = "clean" /\ BagCardinality(pending) = 2

\* C9: with caching disabled every call invokes the backend once, nothing is
\* counted as hit or miss, and the cache stays empty.
C9_CachingDisabled ==
  ~options.cacheResults =>
    /\ stats.cacheHits = 0 /\ stats.cacheMisses = 0
    /\ resultCache = <<>> /\ StatsSnapshot.cachedResultsCount = 0
    /\ stats.calls = invoked /\ dbCalls = invoked

\* The identical request, repeated while the first one is still under way.
C9_Witness ==
  /\ ~options.cacheResults
  /\ \E req \in Requests : CopiesIn(req, pending) = 2

\* Two requests with the same query and filter that differ in k or in probes.
KeySensitive(r1, r2) ==
  /\ r1.query = r2.query /\ r1.filter = r2.filter
  /\ (r1.k # r2.k \/ r1.probes # r2.probes)

\* C10: a request that differs from a cached one in k or in probes (two
\* integers, or absent and an integer) is never served from that entry.
C10_KeySensitivity ==
  last.op = "hit" => ~KeySensitive(last.req, last.by)

\* Two queries equal after normalization and 4-decimal rounding.
SameRounded(q1, q2) ==
  /\ Len(q1) = Len(q2)
  /\ \A i \in DOMAIN q1 : Rounded4(ToFloat32(q1[i])) = Rounded4(ToFloat32(q2[i]))

\* A findNearest call has completed and the next step begins a call whose
\* query is equal to its query after normalization and rounding, with equal
\* k and options.
Consecutive ==
  /\ last.op \in {"hit", "resolved", "rejected"}
  /\ last'.op \in {"hit", "miss"}
  /\ SameRounded(last.req.query, last'.req.query)
  /\ last.req.k = last'.req.k
  /\ last.req.filter = last'.req.filter /\ last.req.probes = last'.req.probes

\* C11, as stated: two such consecutive calls get identical cache keys, and
\* the second is a hit if and only if caching is enabled.
C11_AsStated ==
  [][Consecutive =>
       /\ CacheKeyOf(last.req) = CacheKeyOf(last'.req)
       /\ (last'.op = "hit") <=> options.cacheResults]_vars

\* C11, amended: two such consecutive calls get identical cache keys; the
\* second is never a hit with caching disabled; with caching enabled it is a
\* hit when the first call returned a result, and when the first call failed
\* it is a hit only if the cache held the key at that time.
C11_CacheDeterminism ==
  [][Consecutive =>
       /\ CacheKeyOf(last.req) = CacheKeyOf(last'.req)
       /\ (last'.op = "hit") <=>
             /\ options.cacheResults
             /\ (last.op = "rejected" => CacheHas(resultCache, CacheKeyOf(last.req)))]_vars

\* The second call was served from what the first one had stored for a
\* different query that is the same float32.
C11_Witness ==
  /\ last.op = "hit" /\ invoked = 2 /\ stats.cacheMisses = 1
  /\ last.req.query = <<2^24 + 1>> /\ last.by.query = <<2^24>>

\* C12: no step (a call that hits, begins, succeeds or fails; getStats;
\* clearCache; close) decreases calls, totalTime, cacheHits or cacheMisses.
C12_StatsMonotonic ==
  [][/\ stats'.calls >= stats.calls
     /\ stats'.totalTime >= stats.totalTime
     /\ stats'.cacheHits >= stats.cacheHits
     /\ stats'.cacheMisses >= stats.cacheMisses]_vars

\* All four counters have grown, the last call took no time at all, and a
\* clear has left them alone.
C12_Witness ==
  /\ last.op \in {"clearCache", "close"}
  /\ stats.cacheHits >= 1 /\ stats.cacheMisses >= 2 /\ stats.totalTime >= MaxElapsed
  /\ stats.lastSearchTime = 0 /\ pending # EmptyBag

\* C13: close() empties the cache and leaves the statistics, the
\* configuration, the backend and the calls in flight alone; the call that
\* follows it is a miss that invokes the backend, and when the backend
\* answers a call the result is cached as ever.
C13_CloseOnlyClears ==
  [][/\ last'.op = "close" =>
          /\ resultCache' = <<>> /\ StatsSnapshot'.cachedResultsCount = 0
          /\ dbCalls' = dbCalls /\ stats' = stats /\ options' = options
          /\ pending' = pending
     /\ (last.op = "close" /\ last'.op \in {"hit", "miss"}) =>
          /\ last'.op = "miss"
          /\ dbCalls' = dbCalls + 1 /\ BagIn(last'.req, pending')
     /\ (last'.op = "resolved" /\ options.cacheResults) =>
          /\ CacheHas(resultCache', CacheKeyOf(last'.req))
          /\ CachePeek(resultCache', CacheKeyOf(last'.req)).orig = last'.dbItems]_vars

\* close() has emptied a cache that held something, on an orchestrator
\* that has counted hits and times and can take another call.
C13_Witness ==
  /\ last.op = "close" /\ cleared # {} /\ resultCache = <<>>
  /\ stats.cacheHits >= 1 /\ stats.totalTime >= 1 /\ stats.calls < MaxTimeCalls

\* The per-call options a request carries for the backend: its fields other
\* than the metric that are not undefined.
Absent(field) ==
  IF field = "filter" THEN NoFilter ELSE IF field = "probes" THEN NoProbes ELSE NoOther

PerCallOptions(req) ==
  {f \in {"filter", "probes", "other"} \cap DOMAIN req : req[f] # Absent(f)}

\* C14: the backend is invoked with the metric of the configuration, the
\* caller's k and normalized query, and every per-call option the caller
\* gave: filter, probes and any other field.
C14_PassThrough ==
  last.op = "miss" =>
    /\ last.dbArgs.options.distanceMetric = options.metric
    /\ last.dbArgs.k = last.req.k
    /\ last.dbArgs.query = TypedQuery(last.req.query)
    /\ \A f \in PerCallOptions(last.req) :
          f \in DOMAIN last.dbArgs.options /\ last.dbArgs.options[f] = last.req[f]

\* A call of the same cache key is awaiting the backend.
SameKeyPending(req) == \E r \in BagToSet(pending) : CacheKeyOf(r) = CacheKeyOf(req)

\* C15: with caching enabled, a call that begins while a call of the same
\* key awaits the backend, the key not being cached, is a miss with a backend
\* call of its own; every call the backend answers stores its result, so
\* that the key's one entry holds the result of the call answered last and
\* the second store does not change the size of the cache.
C15_NoCoalescing ==
  [][options.cacheResults =>
       /\ (last'.op \in {"hit", "miss"} /\ SameKeyPending(last'.req)
             /\ ~CacheHas(resultCache, CacheKeyOf(last'.req))) =>
            /\ last'.op = "miss"
            /\ stats'.cacheMisses = stats.cacheMisses + 1
            /\ dbCalls' = dbCalls + 1
            /\ BagCardinality(pending') = BagCardinality(pending) + 1
       /\ last'.op = "resolved" =>
            /\ CachePeek(resultCache', CacheKeyOf(last'.req)).by = last'.req
            /\ CachePeek(resultCache', CacheKeyOf(last'.req)).orig = last'.dbItems
            /\ Cardinality(CacheKeys(resultCache')) = Len(resultCache')
            /\ Len(resultCache') <= Len(resultCache) + 1
            /\ ~last'.wasNew => Len(resultCache') = Len(resultCache)]_vars

\* Two calls of one key were under way at the same time (the second did not
\* hit) and both have been answered: the entry is that of the call
\* answered last.
C15_Witness ==
  /\ options.cacheResults /\ invoked = 2 /\ stats.cacheMisses = 2 /\ dbCalls = 2
  /\ last.op = "resolved" /\ ~last.wasNew /\ pending = EmptyBag
  /\ Len(resultCache) = 1 /\ resultCache[1].by = last.req
  /\ last.req.query = <<1>> /\ stats.totalTime = 2

SameButFilter(r1, r2) ==
  r1.query = r2.query /\ r1.k = r2.k /\ r1.probes = r2.probes

\* Two different filters whose texts have the same length.
SameLength(f1, f2) ==
  f1 # NoFilter /\ f2 # NoFilter /\ f1 # f2 /\ Len(f1) = Len(f2)

\* One filter is absent and the other is not, or their texts differ in length.
OtherLength(f1, f2) ==
  \/ (f1 = NoFilter) # (f2 = NoFilter)
  \/ (f1 # NoFilter /\ f2 # NoFilter /\ Len(f1) # Len(f2))

\* C17: with caching enabled, a call that begins while the cache holds the
\* entry of a request with the same query, k and probes is a hit that
\* returns that entry's results and invokes no backend call if the two
\* filters differ and have the same textual length; if one filter is absent
\* or the lengths differ, the keys differ and the call is a miss (the cache
\* holding no other entry).
C17_FilterLength ==
  (last.op \in {"hit", "miss"} /\ options.cacheResults) =>
    \A i \in DOMAIN resultCache :
      SameButFilter(resultCache[i].by, last.req) =>
        /\ SameLength(resultCache[i].by.filter, last.req.filter) =>
              /\ last.op = "hit" /\ last.by = resultCache[i].by
              /\ last.items = resultCache[i].orig
              /\ last.dbArgs = NoArgs
        /\ OtherLength(resultCache[i].by.filter, last.req.filter) =>
              /\ CacheKeyOf(resultCache[i].by) # CacheKeyOf(last.req)
              /\ Len(resultCache) = 1 => last.op = "miss"

\* The call with filter "b<2" was served what the backend had computed for
\* filter "a>1".
C17_Witness ==
  /\ last.op = "hit" /\ last.req.filter = "b<2" /\ last.by.filter = "a>1"
  /\ last.items = <<1, 2>> /\ dbCalls = 1 /\ invoked = 2 /\ stats.cacheHits = 1

\* C18: every call is under way, timed or failed, and a failed call has
\* added 1 to calls and, caching enabled, 1 to cacheMisses; the step in
\* which a call fails changes no statistic, so that totalTime, lastSearchTime
\* and cacheHits stay as they were; with no call under way, the calls whose
\* time was added to totalTime are calls minus the failed calls.
C18_FailedCallStats ==
  /\ [](stats.calls = timed + failures + BagCardinality(pending))
  /\ [](options.cacheResults =>
          stats.cacheMisses = (timed - stats.cacheHits) + failures + BagCardinality(pending))
  /\ [](pending = EmptyBag => timed = stats.calls - failures)
  /\ [][last'.op = "rejected" => stats' = stats]_vars

\* Two of three calls have failed; the time of the third is all the time
\* there is.
C18_Witness ==
  /\ last.op = "rejected" /\ failures = 2 /\ timed = 1 /\ pending = EmptyBag
  /\ stats.calls = 3 /\ stats.cacheMisses = 3 /\ stats.cacheHits = 0
  /\ stats.totalTime = MaxElapsed /\ stats.lastSearchTime = MaxElapsed

\* What the cache holds, whatever the order: keys and the contents of the
\* arrays cached under them.
Entries(c, h) == {[key |-> c[i].key, items |-> h[c[i].ref]] : i \in DOMAIN c}

\* The calls that missed and returned a result.
SuccessfulMisses == IF options.cacheResults THEN timed - stats.cacheHits ELSE 0

\* C19: every entry holds the sequence the backend returned to the call
\* that stored it, a call of the entry's key; a hit, a call that begins or
\* fails and getStats leave the entries as they are, as does every step with
\* caching disabled; a call the backend answers adds or replaces the entry of
\* its key with the answer and changes no other entry (it may evict);
\* cachedResultsCount <= successful misses <= cacheMisses.
C19_Provenance ==
  /\ [](\A i \in DOMAIN resultCache :
          /\ heap[resultCache[i].ref] = resultCache[i].orig
          /\ CacheKeyOf(resultCache[i].by) = resultCache[i].key)
  /\ [](/\ StatsSnapshot.cachedResultsCount = Len(resultCache)
        /\ StatsSnapshot.cachedResultsCount <= SuccessfulMisses
        /\ SuccessfulMisses <= stats.cacheMisses)
  /\ [][last'.op \in {"hit", "miss", "rejected", "getStats"} =>
          Entries(resultCache', heap') = Entries(resultCache, heap)]_vars
  /\ [][~options.cacheResults => resultCache' = resultCache]_vars
  /\ [][(last'.op = "resolved" /\ options.cacheResults) =>
          LET stored == [key |-> CacheKeyOf(last'.req), items |-> last'.dbItems]
          IN  /\ stored \in Entries(resultCache', heap')
              /\ Entries(resultCache', heap') \ {stored} \subseteq Entries(resultCache, heap)]_vars

\* One call stored a result, one was served from it and one failed: one
\* entry, one successful miss, two misses counted.
C19_Witness ==
  /\ last.op = "rejected" /\ failures = 1 /\ stats.cacheHits = 1 /\ stats.cacheMisses = 2
  /\ Len(resultCache) = 1 /\ resultCache[1].orig = <<1, 2>> /\ SuccessfulMisses = 1

\* C20: clearCache and close leave the calls that await the backend under
\* way; when the backend answers such a call right after the clear, with
\* caching enabled, its result is stored and the cache goes from none to one
\* entry with no call begun since; a call identical to one just answered is
\* a hit that returns that answer, also when the answered call had begun
\* before a clear that emptied its key.
C20_ClearDoesNotCancel ==
  /\ [][last'.op \in {"clearCache", "close"} => pending' = pending]_vars
  /\ [][(last.op \in {"clearCache", "close"} /\ last'.op = "resolved"
           /\ options.cacheResults) =>
          /\ StatsSnapshot.cachedResultsCount = 0 /\ StatsSnapshot'.cachedResultsCount = 1
          /\ invoked' = invoked
          /\ resultCache'[1].key = CacheKeyOf(last'.req)
          /\ resultCache'[1].orig = last'.dbItems]_vars
  /\ [][(last.op = "resolved" /\ options.cacheResults
           /\ last'.op \in {"hit", "miss"} /\ last'.req = last.req) =>
          (last'.op = "hit" /\ last'.items = last.dbItems /\ last'.by = last.req)]_vars
  /\ [](last.afterClear = "stored" => (last.op = "hit" /\ last.items = last.stored))

\* The third call is served a result that was requested before the clear
\* and stored after it.
C20_Witness ==
  /\ last.op = "hit" /\ last.afterClear = "stored" /\ invoked = 3
  /\ stats.cacheMisses = 2 /\ stats.cacheHits = 1 /\ timed = 3
  /\ Len(resultCache) = 1 /\ last.by = last.req

====
